---- MODULE Spec2Model ----
(***************************************************************************)
(* Model of matchbox_nostr: the GGRS adapter of the WebRTC socket           *)
(* (matchbox_socket_nostr/src/ggrs_socket.rs) and the socket runtime it     *)
(* drives.  The builder typestate, WebRtcSocket::players and the packet     *)
(* adapter are translated from ggrs_socket.rs; the runtime's id /           *)
(* connected_peers / send / receive and the message loop live in            *)
(* matchbox_socket_nostr's webrtc_socket module and follow its contract.    *)
(***************************************************************************)
EXTENDS Integers, Sequences, FiniteSets, TLC

\* ------------------------------------------------------------------ bounds
\* The room holds the first MaxPeers ids of PeerIdPool.
MaxPeers == 3
\* The callers make at most MaxSends send_to calls in all.
MaxSends == 2
\* The builder accepts at most MaxChannels channel-adding calls in the model.
MaxChannels == 4

\* PeerIds are integers, ordered as integers (PeerId's derived Ord).
PeerIdPool == <<0, 1, 3, 2, 4, 5>>
\* The World applies at most MaxOpens open_socket commands in the model.
MaxOpens == 2

PeerIds == {PeerIdPool[i] : i \in 1..MaxPeers}
\* The two socket runtimes observed in one room; every other PeerId is a
\* remote participant known only through the message loop's peer events.
Sockets == {"A", "B"}

VARIABLES
    builder,     \* WebRtcSocketBuilder: config and channel_plurality marker
    calls,       \* history: number of channel-adding calls made on builder
    own,         \* the PeerId the signalling layer gives each socket
    id,          \* WebRtcSocket::id(): None or Some(own id), per socket
    peers,       \* per socket: map PeerId -> PeerState of the known peers
    outbound,    \* per socket: queue of (PeerId, Packet) the caller sent
    inbound,     \* per socket: queue of (PeerId, Packet) the loop delivered
    wire,        \* packets in flight between two message loops
    sent,        \* history: number of send_to calls made so far
    refused,     \* history: the send_to calls addressed to a peer not Connected
    delivered,   \* history: per socket, every (PeerId, Packet) ever delivered
    received,    \* history: per socket, all receive_all_messages results in order
    arrivals,    \* history: per socket, deliveries since the last receive
    lastDrain,   \* history: per socket, the last receive_all_messages call
    panicked,    \* per socket: the caller's thread unwound from a panic
    loop,        \* per socket: its message loop is "running" or "finished"
    posted,      \* history: the send_to calls made, with their messages
    world,       \* bevy World: the MatchboxSocket resources it holds
    built,       \* every socket built so far: its class and room address
    tasks,       \* IoTaskPool: every task spawned so far, detached
    lastCmd      \* history: the last command the World applied

vars == <<builder, calls, own, id, peers, outbound, inbound, wire,
          sent, refused, delivered, received, arrivals, lastDrain,
          panicked, loop, posted, world, built, tasks, lastCmd>>
worldVars == <<world, built, tasks, lastCmd>>
builderVars == <<builder, calls>>
peerVars == <<own, id, peers>>
dataVars == <<outbound, inbound, wire, sent, refused, delivered, received,
              arrivals, lastDrain>>

\* ------------------------------------------------------------ Option, roles
None == <<>>
Some(x) == <<x>>
Unwrap(o) == o[1]

Local == <<"Local">>
Remote(p) == <<"Remote", p>>

\* ------------------------------------------------------ channel configuration
unreliable == [ordered |-> FALSE, max_retransmits |-> 0]
reliable == [ordered |-> TRUE, max_retransmits |-> -1]
ChannelConfigs == {unreliable, reliable}

\* ChannelConfig::ggrs
ggrs == unreliable

\* ------------------------------------------------------------ socket builder
RoomUrls == {"wss://example", "wss://other"}
KeysSet == {"k1", "k2"}

\* WebRtcSocketBuilder::new(room_url, nostr_keys)
NewBuilder(room_url, nostr_keys) ==
    [config |-> [room_url |-> room_url, nostr_keys |-> nostr_keys, channels |-> <<>>],
     channel_plurality |-> "NoChannels"]

\* Mutant: the config is put in front of the ones already there.
PushChannel_front(config, cfg) == [config EXCEPT !.channels = <<cfg>> \o @]

\* self.config.channels.push(cfg)
PushChannel(config, cfg) == [config EXCEPT !.channels = Append(@, cfg)]

\* impl WebRtcSocketBuilder<NoChannels>
add_ggrs_channel_NoChannels(b) ==
    [config |-> PushChannel(b.config, ggrs), channel_plurality |-> "SingleChannel"]

\* Mutant: the second channel leaves the marker at SingleChannel.
add_ggrs_channel_SingleChannel_stuck(b) ==
    [config |-> PushChannel(b.config, ggrs), channel_plurality |-> "SingleChannel"]

\* impl WebRtcSocketBuilder<SingleChannel>
add_ggrs_channel_SingleChannel(b) ==
    [config |-> PushChannel(b.config, ggrs), channel_plurality |-> "MultipleChannels"]

\* impl WebRtcSocketBuilder<MultipleChannels>
add_ggrs_channel_MultipleChannels(b) ==
    [config |-> PushChannel(b.config, ggrs), channel_plurality |-> "MultipleChannels"]

\* The impl the type checker selects for the builder's current marker.
add_ggrs_channel(b) ==
    CASE b.channel_plurality = "NoChannels" -> add_ggrs_channel_NoChannels(b)
      [] b.channel_plurality = "SingleChannel" -> add_ggrs_channel_SingleChannel(b)
      [] b.channel_plurality = "MultipleChannels" -> add_ggrs_channel_MultipleChannels(b)

\* WebRtcSocketBuilder::add_channel(config): the same typestate step with a
\* caller-chosen profile.
add_channel(b, cfg) ==
    [config |-> PushChannel(b.config, cfg),
     channel_plurality |->
        IF b.channel_plurality = "NoChannels" THEN "SingleChannel" ELSE "MultipleChannels"]

\* WebRtcSocket::new_ggrs: the builder it builds the socket from.
new_ggrs(room_url, nostr_keys) == add_channel(NewBuilder(room_url, nostr_keys), ggrs)

AddGgrsChannel ==
    /\ calls < MaxChannels
    /\ builder' = add_ggrs_channel(builder)
    /\ calls' = calls + 1
    /\ UNCHANGED <<peerVars, dataVars, panicked, loop, posted, worldVars>>

AddChannel(cfg) ==
    /\ calls < MaxChannels
    /\ builder' = add_channel(builder, cfg)
    /\ calls' = calls + 1
    /\ UNCHANGED <<peerVars, dataVars, panicked, loop, posted, worldVars>>

\* ------------------------------------------------------------ socket runtime
PeerStates == {"Connecting", "Connected", "Disconnected"}

\* WebRtcSocket::id
socket_id(s) == id[s]

\* WebRtcSocket::connected_peers: the peers in Connected state, as a set.
connected_peers(s) == {p \in DOMAIN peers[s] : peers[s][p] = "Connected"}

\* The orders in which connected_peers() may yield its items (unspecified).
Enumerations(S) ==
    {f \in [1..Cardinality(S) -> S] : \A x \in S : \E i \in 1..Cardinality(S) : f[i] = x}

RECURSIVE Insert(_, _)
Insert(sorted, x) ==
    IF sorted = <<>> THEN <<x>>
    ELSE IF x < Head(sorted) THEN <<x>> \o sorted
    ELSE <<Head(sorted)>> \o Insert(Tail(sorted), x)

\* Mutant: the ids are left in enumeration order.
Sort_skipped(ids) == ids

\* ids.sort(): ascending by PeerId's Ord, equal ids kept.
RECURSIVE Sort(_)
Sort(ids) == IF ids = <<>> THEN <<>> ELSE Insert(Sort(Tail(ids)), Head(ids))

\* Mutant: no early return; an unresolved id lists the connected peers only.
players_of_no_early_return(opt_id, connected) ==
    LET ids == Sort(connected \o opt_id)
    IN [i \in 1..Len(ids) |-> IF <<ids[i]>> = opt_id THEN Local ELSE Remote(ids[i])]

\* Mutant: the own id is put first and only the connected peers are sorted.
players_of_local_first(opt_id, connected) ==
    IF opt_id = None THEN <<Local>>
    ELSE LET our_id == Unwrap(opt_id)
             ids == <<our_id>> \o Sort(connected)
         IN [i \in 1..Len(ids) |-> IF ids[i] = our_id THEN Local ELSE Remote(ids[i])]

\* Mutant: the own id is not chained to the connected peers.
players_of_without_self(opt_id, connected) ==
    IF opt_id = None THEN <<Local>>
    ELSE LET our_id == Unwrap(opt_id)
             ids == Sort(connected)
         IN [i \in 1..Len(ids) |-> IF ids[i] = our_id THEN Local ELSE Remote(ids[i])]

\* WebRtcSocket::players, for one enumeration order of connected_peers().
players_of(opt_id, connected) ==
    IF opt_id = None THEN <<Local>>
    ELSE LET our_id == Unwrap(opt_id)
             ids == Sort(connected \o <<our_id>>)
         IN [i \in 1..Len(ids) |-> IF ids[i] = our_id THEN Local ELSE Remote(ids[i])]

\* Every list players() can return in the current state of socket s.
players(s) == {players_of(socket_id(s), e) : e \in Enumerations(connected_peers(s))}

\* --------------------------------------------------------------- message loop
SetPeerState(m, p, st) == [q \in DOMAIN m \cup {p} |-> IF q = p THEN st ELSE m[q]]

\* Mutant: a second id message clears the id again.
ResolveId_flapping(s) ==
    /\ id' = [id EXCEPT ![s] = IF @ = None THEN Some(own[s]) ELSE None]
    /\ UNCHANGED <<own, peers, builderVars, dataVars, panicked, loop, posted, worldVars>>

\* The signalling layer tells the socket its own id.
ResolveId(s) ==
    /\ loop[s] = "running"
    /\ id[s] = None
    /\ id' = [id EXCEPT ![s] = Some(own[s])]
    /\ UNCHANGED <<own, peers, builderVars, dataVars, panicked, loop, posted, worldVars>>

\* Mutant: peers are announced before the own id is known.
PeerConnecting_before_id(s, p) ==
    /\ p # own[s]
    /\ p \notin DOMAIN peers[s]
    /\ peers' = [peers EXCEPT ![s] = SetPeerState(@, p, "Connecting")]
    /\ UNCHANGED <<own, id, builderVars, dataVars, panicked, loop, posted, worldVars>>

\* A new remote peer is announced: the handshake with it starts.
PeerConnecting(s, p) ==
    /\ loop[s] = "running"
    /\ id[s] # None
    /\ p # own[s]
    /\ p \notin DOMAIN peers[s]
    /\ peers' = [peers EXCEPT ![s] = SetPeerState(@, p, "Connecting")]
    /\ UNCHANGED <<own, id, builderVars, dataVars, panicked, loop, posted, worldVars>>

\* The data channels to p are open.
PeerConnected(s, p) ==
    /\ loop[s] = "running"
    /\ p \in DOMAIN peers[s]
    /\ peers[s][p] = "Connecting"
    /\ peers' = [peers EXCEPT ![s] = SetPeerState(@, p, "Connected")]
    /\ UNCHANGED <<own, id, builderVars, dataVars, panicked, loop, posted, worldVars>>

\* The handshake failed or the connection to p was lost.
PeerDisconnected(s, p) ==
    /\ loop[s] = "running"
    /\ p \in DOMAIN peers[s]
    /\ peers[s][p] \in {"Connecting", "Connected"}
    /\ peers' = [peers EXCEPT ![s] = SetPeerState(@, p, "Disconnected")]
    /\ UNCHANGED <<own, id, builderVars, dataVars, panicked, loop, posted, worldVars>>

\* -------------------------------------------------------------- packet codec
\* The rollback messages the callers send: an endpoint's magic and an
\* InputAck body whose ack_frame tells the calls apart.
Magic(s) == IF s = "A" THEN 258 ELSE 1
Message(s, n) == [magic |-> Magic(s), ack_frame |-> n]
Messages == {Message(s, n) : s \in Sockets, n \in 1..MaxSends}

\* Rollback messages at the edges of their fields: magic is a u16 and
\* ack_frame an i32.
CodecMessages ==
    { [magic |-> 258, ack_frame |-> -1],
      [magic |-> 65535, ack_frame |-> 2147483647],
      [magic |-> 0, ack_frame |-> -2147483647 - 1] }

\* bincode's fixed-width little-endian integers.
LeBytes(v, width) == [i \in 1..width |-> (v \div (256 ^ (i - 1))) % 256]
FromLe(bytes) ==
    LET RECURSIVE Sum(_)
        Sum(i) == IF i > Len(bytes) THEN 0 ELSE bytes[i] * (256 ^ (i - 1)) + Sum(i + 1)
    IN Sum(1)

\* The variant index bincode writes for MessageBody::InputAck.
InputAckTag == 3

\* Mutant: the magic is written as a single byte.
build_packet_narrow_magic(msg) ==
    LeBytes(msg.magic % 256, 2) \o LeBytes(InputAckTag, 4) \o LeBytes(msg.ack_frame, 4)

\* build_packet: bincode::serialize(&msg).unwrap()
build_packet(msg) ==
    LeBytes(msg.magic, 2) \o LeBytes(InputAckTag, 4) \o LeBytes(msg.ack_frame, 4)

\* A little-endian two's-complement integer (ack_frame is an i32).
FromLeSigned(bytes) ==
    LET n == Len(bytes)
        top == IF bytes[n] >= 128 THEN bytes[n] - 256 ELSE bytes[n]
    IN FromLe(SubSeq(bytes, 1, n - 1)) + top * (256 ^ (n - 1))

\* Result<Message, bincode::Error>
Ok(v) == [ok |-> TRUE, value |-> v]
Err == [ok |-> FALSE, value |-> [magic |-> 0, ack_frame |-> 0]]

\* The bytes bincode accepts as an InputAck message: all ten bytes present
\* (bytes beyond them are ignored) and the variant index that of InputAck.
Decodable(bytes) == Len(bytes) >= 10 /\ SubSeq(bytes, 3, 6) = LeBytes(InputAckTag, 4)

\* bincode::deserialize(&packet)
bincode_deserialize(bytes) ==
    IF Decodable(bytes)
    THEN Ok([magic |-> FromLe(SubSeq(bytes, 1, 2)),
             ack_frame |-> FromLeSigned(SubSeq(bytes, 7, 10))])
    ELSE Err

\* Packets that did not come out of build_packet: one cut short, one with
\* a variant index no MessageBody has, one with a byte after the message.
RawPackets ==
    { SubSeq(build_packet(Message("A", 1)), 1, 9),
      LeBytes(258, 2) \o LeBytes(9, 4) \o LeBytes(1, 4),
      build_packet(Message("B", 2)) \o <<7>> }

\* Mutant: the peer id of the pair is lost.
deserialize_packet_no_peer(message) ==
    LET r == bincode_deserialize(message[2])
    IN [panic |-> ~r.ok, pair |-> <<0, r.value>>]

\* deserialize_packet((peer, packet)): unwrap() panics on Err.
deserialize_packet(message) ==
    LET r == bincode_deserialize(message[2])
    IN [panic |-> ~r.ok, pair |-> <<message[1], r.value>>]

\* ------------------------------------------------------------- caller: send
\* WebRtcSocket::send(packet, peer): queued for the message loop when the
\* peer is Connected, silently dropped otherwise.
send(s, packet, peer) ==
    outbound' = [outbound EXCEPT ![s] =
                    IF peer \in connected_peers(s) THEN Append(@, <<peer, packet>>) ELSE @]

\* Mutant: the packet goes to a connected peer, whatever addr is.
send_to_any_connected(s, msg, addr) ==
    IF connected_peers(s) = {} THEN send(s, build_packet(msg), addr)
    ELSE send(s, build_packet(msg), CHOOSE p \in connected_peers(s) : TRUE)

\* NonBlockingSocket::send_to(msg, addr)
send_to(s, msg, addr) == send(s, build_packet(msg), addr)

\* Mutant: the packet is also looped back into the sender's inbound queue.
SendTo_loopback(s, addr) ==
    /\ sent < MaxSends
    /\ send_to(s, Message(s, sent + 1), addr)
    /\ sent' = sent + 1
    /\ refused' = refused
    /\ posted' = posted
    /\ inbound' = [inbound EXCEPT ![s] = Append(@, <<addr, build_packet(Message(s, sent + 1))>>)]
    /\ UNCHANGED <<builderVars, peerVars, wire, delivered, received, arrivals, lastDrain, panicked, loop, worldVars>>

\* A caller's send_to call with message msg.
SendMessage(s, msg, addr) ==
    /\ ~panicked[s]
    /\ sent < MaxSends
    /\ send_to(s, msg, addr)
    /\ sent' = sent + 1
    /\ refused' = IF addr \in connected_peers(s) THEN refused
                  ELSE refused \cup {[from |-> s, to |-> addr, msg |-> msg]}
    /\ posted' = posted \cup {[from |-> s, to |-> addr, msg |-> msg]}
    /\ UNCHANGED <<builderVars, peerVars, inbound, wire, delivered, received,
                   arrivals, lastDrain, panicked, loop, worldVars>>

\* The calls of one session carry messages that differ in their ack_frame.
SendTo(s, addr) == SendMessage(s, Message(s, sent + 1), addr)

\* A caller's WebRtcSocket::send of bytes of its own making.
SendRaw(s, packet, addr) ==
    /\ ~panicked[s]
    /\ sent < MaxSends
    /\ send(s, packet, addr)
    /\ sent' = sent + 1
    /\ UNCHANGED <<builderVars, peerVars, inbound, wire, delivered, received,
                   arrivals, lastDrain, refused, panicked, loop, posted, worldVars>>

\* ---------------------------------------------------------- caller: receive
\* Mutant: receive() returns the queue without emptying it.
receive_peek(queue) == [returned |-> queue, left |-> queue]

\* WebRtcSocket::receive(): everything queued is returned, nothing is left.
receive(queue) == [returned |-> queue, left |-> <<>>]

\* Mutant: the messages are collected back to front.
receive_all_messages_reversed(returned) ==
    [panic |-> \E i \in 1..Len(returned) : deserialize_packet(returned[i]).panic,
     messages |-> [i \in 1..Len(returned) |->
                      deserialize_packet(returned[Len(returned) + 1 - i]).pair]]

\* Mutant: a packet that fails to deserialize is skipped (filter_map).
RECURSIVE DecodedOnly(_)
DecodedOnly(returned) ==
    IF returned = <<>> THEN <<>>
    ELSE IF deserialize_packet(Head(returned)).panic THEN DecodedOnly(Tail(returned))
    ELSE <<deserialize_packet(Head(returned)).pair>> \o DecodedOnly(Tail(returned))
receive_all_messages_skipping(returned) ==
    [panic |-> FALSE, messages |-> DecodedOnly(returned)]

\* NonBlockingSocket::receive_all_messages, on what receive() returned: the
\* collected pairs, or a panic when a packet does not deserialize.
receive_all_messages(returned) ==
    [panic |-> \E i \in 1..Len(returned) : deserialize_packet(returned[i]).panic,
     messages |-> [i \in 1..Len(returned) |-> deserialize_packet(returned[i]).pair]]

\* A caller's receive_all_messages call.  When it panics nothing is returned
\* and the packets receive() had taken from the queue are gone.
ReceiveAllMessages(s) ==
    LET r == receive(inbound[s])
        result == receive_all_messages(r.returned)
    IN /\ ~panicked[s]
       /\ inbound' = [inbound EXCEPT ![s] = r.left]
       /\ panicked' = [panicked EXCEPT ![s] = result.panic]
       /\ received' = IF result.panic THEN received
                      ELSE [received EXCEPT ![s] = @ \o result.messages]
       /\ lastDrain' = IF result.panic THEN lastDrain
                       ELSE [lastDrain EXCEPT ![s] =
                               Some([result |-> result.messages, arrivals |-> arrivals[s]])]
       /\ arrivals' = [arrivals EXCEPT ![s] = 0]
       /\ UNCHANGED <<builderVars, peerVars, outbound, wire, sent, refused, delivered,
                      loop, posted, worldVars>>

\* ------------------------------------------------- message loop: data movement
\* The loop takes the next outbound packet and writes it to the peer's data
\* channel; without an open channel to the peer the packet is dropped.
LoopTransmit(s) ==
    /\ loop[s] = "running"
    /\ outbound[s] # <<>>
    /\ LET m == Head(outbound[s])
       IN wire' = IF m[1] \in connected_peers(s)
                  THEN wire \cup {[from |-> own[s], to |-> m[1], packet |-> m[2]]}
                  ELSE wire
    /\ outbound' = [outbound EXCEPT ![s] = Tail(@)]
    /\ UNCHANGED <<builderVars, peerVars, inbound, sent, refused, delivered,
                   received, arrivals, lastDrain, panicked, loop, posted, worldVars>>

\* The loop reads a packet from the data channel of a connected peer and
\* queues it for the caller.
LoopDeliver(s) ==
    \E w \in wire :
        /\ loop[s] = "running"
        /\ w.to = own[s]
        /\ w.from \in connected_peers(s)
        /\ wire' = wire \ {w}
        /\ inbound' = [inbound EXCEPT ![s] = Append(@, <<w.from, w.packet>>)]
        /\ delivered' = [delivered EXCEPT ![s] = Append(@, <<w.from, w.packet>>)]
        /\ arrivals' = [arrivals EXCEPT ![s] = @ + 1]
        /\ UNCHANGED <<builderVars, peerVars, outbound, sent, refused, received,
                       lastDrain, panicked, loop, posted, worldVars>>

\* An unreliable channel may lose a packet in flight.
WireLose ==
    \E w \in wire :
        /\ wire' = wire \ {w}
        /\ UNCHANGED <<builderVars, peerVars, outbound, inbound, sent, refused,
                       delivered, received, arrivals, lastDrain, panicked, loop, posted, worldVars>>

\* Mutant: the loop takes the socket's state down with it.
LoopTerminate_drops_runtime(s) ==
    /\ loop[s] = "running"
    /\ loop' = [loop EXCEPT ![s] = "finished"]
    /\ id' = [id EXCEPT ![s] = None]
    /\ peers' = [peers EXCEPT ![s] = <<>>]
    /\ inbound' = [inbound EXCEPT ![s] = <<>>]
    /\ UNCHANGED <<builderVars, own, outbound, wire, sent, refused, delivered,
                   received, arrivals, lastDrain, panicked, posted, worldVars>>

\* The signalling connection closes or fails: the loop's future completes.
\* The socket, which the caller owns, is left as it is.
LoopTerminate(s) ==
    /\ loop[s] = "running"
    /\ loop' = [loop EXCEPT ![s] = "finished"]
    /\ UNCHANGED <<builderVars, peerVars, dataVars, panicked, posted, worldVars>>

\* ------------------------------------------------------- bevy: MatchboxSocket
\* The channel-count classes a socket can be built with (BuildablePlurality).
Classes == {"SingleChannel", "MultipleChannels"}
\* The room addresses the commands are given; the empty one is malformed.
WorldUrls == {"wss://example", ""}

\* builder.build(): the socket runtime, named by its place in built; its
\* message loop future is returned with it.
build(bs, class, room_url) == Append(bs, [class |-> class, room_url |-> room_url])

\* Mutant: the future is spawned a second time.
from_pair_spawn_twice(ts, k) ==
    ts \o <<[socket |-> k, state |-> "idle"], [socket |-> k, state |-> "idle"]>>

\* From<(WebRtcSocket<C>, MessageLoopFuture)>: task_pool.spawn(fut).detach()
from_pair(ts, k) == Append(ts, [socket |-> k, state |-> "idle"])

\* Mutant: the resource is added beside the one already there.
insert_resource_beside(w, r) == w \cup {r}

\* World::insert_resource: the resource of that type is replaced.
insert_resource(w, r) == {x \in w : x.class # r.class} \cup {r}

\* World::remove_resource::<MatchboxSocket<C>>
remove_resource(w, class) == {x \in w : x.class # class}

\* OpenSocket::write: world.insert_resource(MatchboxSocket::from(builder))
OpenSocket(class, room_url) ==
    /\ Len(built) < MaxOpens
    /\ built' = build(built, class, room_url)
    /\ tasks' = from_pair(tasks, Len(built) + 1)
    /\ world' = insert_resource(world, [class |-> class, socket |-> Len(built) + 1])
    /\ lastCmd' = Some([cmd |-> "open", class |-> class])
    /\ UNCHANGED <<builderVars, peerVars, dataVars, panicked, loop, posted>>

\* CloseSocket::write: world.remove_resource::<MatchboxSocket<C>>()
CloseSocket(class) ==
    /\ world' = remove_resource(world, class)
    /\ lastCmd' = Some([cmd |-> "close", class |-> class])
    /\ UNCHANGED <<builderVars, peerVars, dataVars, panicked, loop, posted, built, tasks>>

\* The task pool polls a spawned message loop: it waits for I/O, then
\* handles it, and so on.
TaskStep(i) ==
    /\ i \in DOMAIN tasks
    /\ tasks[i].state # "finished"
    /\ tasks' = [tasks EXCEPT ![i].state = IF @ = "idle" THEN "io" ELSE "idle"]
    /\ UNCHANGED <<builderVars, peerVars, dataVars, panicked, loop, posted, world, built,
                   lastCmd>>

\* The connection to the signalling endpoint closes or fails: the message
\* loop's future completes.
SignallingClosed(i) ==
    /\ i \in DOMAIN tasks
    /\ tasks[i].state # "finished"
    /\ tasks' = [tasks EXCEPT ![i].state = "finished"]
    /\ UNCHANGED <<builderVars, peerVars, dataVars, panicked, loop, posted, world, built,
                   lastCmd>>

\* -------------------------------------------------------------- specifications
InitBuilder ==
    /\ \E u \in RoomUrls, k \in KeysSet : builder = NewBuilder(u, k)
    /\ calls = 0

InitPeers ==
    /\ own \in {f \in [Sockets -> PeerIds] : f["A"] # f["B"]}
    /\ id = [s \in Sockets |-> None]
    /\ peers = [s \in Sockets |-> <<>>]

InitData ==
    /\ outbound = [s \in Sockets |-> <<>>]
    /\ inbound = [s \in Sockets |-> <<>>]
    /\ wire = {}
    /\ sent = 0
    /\ refused = {}
    /\ delivered = [s \in Sockets |-> <<>>]
    /\ received = [s \in Sockets |-> <<>>]
    /\ arrivals = [s \in Sockets |-> 0]
    /\ lastDrain = [s \in Sockets |-> None]
    /\ panicked = [s \in Sockets |-> FALSE]
    /\ loop = [s \in Sockets |-> "running"]
    /\ posted = {}
    /\ world = {}
    /\ built = <<>>
    /\ tasks = <<>>
    /\ lastCmd = None

\* The sockets are built by new_ggrs.
InitBuilt ==
    /\ builder = new_ggrs("wss://example", "k1")
    /\ calls = 1

\* The peer-state side of the sockets: identity, peer events, players().
Init == InitBuilt /\ InitPeers /\ InitData

Next ==
    \/ \E s \in Sockets : ResolveId(s)
    \/ \E s \in Sockets, p \in PeerIds : PeerConnecting(s, p)
    \/ \E s \in Sockets, p \in PeerIds : PeerConnected(s, p)
    \/ \E s \in Sockets, p \in PeerIds : PeerDisconnected(s, p)

Spec == Init /\ [][Next]_vars

\* The builder alone, from WebRtcSocketBuilder::new on.
NextBuilder ==
    \/ AddGgrsChannel
    \/ \E cfg \in ChannelConfigs : AddChannel(cfg)


\* The data side: the two sockets' callers and message loops exchanging
\* packets, each socket learning of the other through its peer events.
Other(s) == CHOOSE t \in Sockets : t # s

\* No peer event has happened yet.
InitIdle ==
    /\ own = [s \in Sockets |-> IF s = "A" THEN PeerIdPool[1] ELSE PeerIdPool[2]]
    /\ id = [s \in Sockets |-> None]
    /\ peers = [s \in Sockets |-> <<>>]

InitChannel == InitBuilt /\ InitIdle /\ InitData

\* A new builder; no socket is built from it yet.
InitNew == InitBuilder /\ InitIdle /\ InitData

SpecBuilder == InitNew /\ [][NextBuilder]_vars

NextChannel ==
    \/ \E s \in Sockets : ResolveId(s)
    \/ \E s \in Sockets : PeerConnecting(s, own[Other(s)])
    \/ \E s \in Sockets : PeerConnected(s, own[Other(s)])
    \/ \E s \in Sockets : PeerDisconnected(s, own[Other(s)])
    \/ \E s \in Sockets, addr \in PeerIds : SendTo(s, addr)
    \/ \E s \in Sockets : LoopTransmit(s)
    \/ \E s \in Sockets : LoopDeliver(s)
    \/ WireLose
    \/ \E s \in Sockets : ReceiveAllMessages(s)

SpecChannel == InitChannel /\ [][NextChannel]_vars

\* The data side with message loops that may end at any time.
InitTerminate == InitBuilt /\ InitIdle /\ InitData

NextTerminate ==
    \/ \E s \in Sockets : ResolveId(s)
    \/ \E s \in Sockets : PeerConnecting(s, own[Other(s)])
    \/ \E s \in Sockets : PeerConnected(s, own[Other(s)])
    \/ \E s \in Sockets : PeerDisconnected(s, own[Other(s)])
    \/ \E s \in Sockets : SendTo(s, own[Other(s)])
    \/ \E s \in Sockets : LoopTransmit(s)
    \/ \E s \in Sockets : LoopDeliver(s)
    \/ \E s \in Sockets : ReceiveAllMessages(s)
    \/ \E s \in Sockets : LoopTerminate(s)

SpecTerminate == InitTerminate /\ [][NextTerminate]_vars

\* The codec: callers exchange rollback messages through send_to and
\* packets of their own through WebRtcSocket::send, over channels that
\* deliver them unchanged.
InitCodec == InitBuilt /\ InitIdle /\ InitData

NextCodec ==
    \/ \E s \in Sockets : ResolveId(s)
    \/ \E s \in Sockets : PeerConnecting(s, own[Other(s)])
    \/ \E s \in Sockets : PeerConnected(s, own[Other(s)])
    \/ \E s \in Sockets, msg \in CodecMessages : SendMessage(s, msg, own[Other(s)])
    \/ \E s \in Sockets, packet \in RawPackets : SendRaw(s, packet, own[Other(s)])
    \/ \E s \in Sockets : LoopTransmit(s)
    \/ \E s \in Sockets : LoopDeliver(s)
    \/ \E s \in Sockets : ReceiveAllMessages(s)

SpecCodec == InitCodec /\ [][NextCodec]_vars

\* The bevy side: open_socket / close_socket commands applied to the World
\* and the message loops the task pool runs.
InitWorld == InitBuilt /\ InitIdle /\ InitData

NextWorld ==
    \/ \E class \in Classes, room_url \in WorldUrls : OpenSocket(class, room_url)
    \/ \E class \in Classes : CloseSocket(class)
    \/ \E i \in 1..MaxOpens : TaskStep(i)
    \/ \E i \in 1..MaxOpens : SignallingClosed(i)

SpecWorld == InitWorld /\ [][NextWorld]_vars

\* The task pool keeps polling every task it was given; nothing obliges the
\* signalling connection to close.
SpecWorldFair == SpecWorld /\ \A i \in 1..MaxOpens : WF_vars(TaskStep(i))

\* ------------------------------------------------------------------- claims
\* The PeerId a players() entry of socket s stands for.
Denote(s, entry) == IF entry = Local THEN own[s] ELSE entry[2]

\* The ids of S in ascending order: the i-th has exactly i-1 smaller ones.
Ascending(S) ==
    [i \in 1..Cardinality(S) |-> CHOOSE x \in S : Cardinality({y \in S : y < x}) = i - 1]

\* The list the contract prescribes for own id o and connected set C.
Roster(o, C) ==
    LET ids == Ascending(C \cup {o})
    IN [i \in 1..Len(ids) |-> IF ids[i] = o THEN Local ELSE Remote(ids[i])]

Resolved(s) == id[s] # None

\* C1 (as amended): whenever the own id is resolved, players() is the
\* ascending list of connected_peers() plus the own id, the own id mapped to
\* Local and every other id to Remote(id); own id 0 with connected peers
\* {3, 1} yields [Local, Remote(1), Remote(3)].
C1_PlayersSorted ==
    \A s \in Sockets :
        Resolved(s) =>
            /\ players(s) = {Roster(Unwrap(id[s]), connected_peers(s))}
            /\ (Unwrap(id[s]) = 0 /\ connected_peers(s) = {1, 3})
                  => players(s) = {<<Local, Remote(1), Remote(3)>>}

C1_Witness ==
    \E s \in Sockets :
        /\ id[s] = Some(0)
        /\ connected_peers(s) = {1, 3}
        /\ players(s) = {<<Local, Remote(1), Remote(3)>>}

\* C1 as claimed: the same rule, with the example own id 0, connected peers
\* {3, 1} yielding [Remote(1), Local, Remote(3)].
C1_Original ==
    \A s \in Sockets :
        Resolved(s) =>
            /\ players(s) = {Roster(Unwrap(id[s]), connected_peers(s))}
            /\ (Unwrap(id[s]) = 0 /\ connected_peers(s) = {1, 3})
                  => players(s) = {<<Remote(1), Local, Remote(3)>>}

\* C2: while id() is None, players() returns exactly [Local].
C2_UnresolvedIsLocal ==
    \A s \in Sockets : id[s] = None => players(s) = {<<Local>>}

C2_Witness ==
    \E s, t \in Sockets :
        /\ id[s] = None
        /\ players(s) = {<<Local>>}
        /\ connected_peers(t) # {}

\* C3: two runtimes with resolved ids that see the same participant set
\* (connected peers plus own id) return lists of the same length that denote
\* the same PeerId at every position.
C3_SameSetSameOrder ==
    \A a, b \in Sockets :
        (/\ Resolved(a) /\ Resolved(b)
         /\ connected_peers(a) \cup {own[a]} = connected_peers(b) \cup {own[b]})
        => \A la \in players(a), lb \in players(b) :
              /\ Len(la) = Len(lb)
              /\ \A i \in 1..Len(la) : Denote(a, la[i]) = Denote(b, lb[i])

C3_Witness ==
    /\ Resolved("A") /\ Resolved("B")
    /\ connected_peers("A") \cup {own["A"]} = connected_peers("B") \cup {own["B"]}
    /\ Cardinality(connected_peers("A")) >= 2
    /\ \E la \in players("A"), lb \in players("B") : la # lb

\* The PeerIds a list of socket s denotes, position by position.
Denoted(s, l) == [i \in 1..Len(l) |-> Denote(s, l[i])]

\* C4 (as amended): any two sockets with resolved ids order every pair of
\* PeerIds that both of their players() lists contain the same way.
C4_CommonPairsAgree ==
    \A a, b \in Sockets :
        (Resolved(a) /\ Resolved(b)) =>
            \A la \in players(a), lb \in players(b) :
                \A i, j \in 1..Len(la), k, l \in 1..Len(lb) :
                    (/\ Denote(a, la[i]) = Denote(b, lb[k])
                     /\ Denote(a, la[j]) = Denote(b, lb[l])
                     /\ i < j)
                    => k < l

C4_Witness ==
    /\ Resolved("A") /\ Resolved("B")
    /\ own["B"] \in connected_peers("A")
    /\ own["A"] \in connected_peers("B")
    /\ connected_peers("A") \cup {own["A"]} # connected_peers("B") \cup {own["B"]}
    /\ \E la \in players("A"), lb \in players("B") : Len(la) = 3 /\ Len(lb) = 2

\* C4 as claimed: at every state, any two sockets with resolved ids obtain
\* the same ordering of PeerIds from players(); stated here for the pairs
\* that are already connected to each other, which the claim includes.
C4_Original ==
    \A a, b \in Sockets :
        (/\ Resolved(a) /\ Resolved(b)
         /\ own[b] \in connected_peers(a) /\ own[a] \in connected_peers(b)) =>
            \A la \in players(a), lb \in players(b) : Denoted(a, la) = Denoted(b, lb)

\* C9: every list players() returns has exactly one Local entry, Remote(p)
\* exactly once for each peer p in Connected state and nothing else, and
\* connected_peers() never contains the socket's own id.
C9_OneLocalRemotesConnected ==
    \A s \in Sockets :
        /\ own[s] \notin connected_peers(s)
        /\ \A l \in players(s) :
              /\ Cardinality({i \in 1..Len(l) : l[i] = Local}) = 1
              /\ \A p \in connected_peers(s) :
                    Cardinality({i \in 1..Len(l) : l[i] = Remote(p)}) = 1
              /\ \A i \in 1..Len(l) :
                    l[i] = Local \/ \E p \in connected_peers(s) : l[i] = Remote(p)

C9_Witness ==
    \E s \in Sockets :
        /\ Cardinality(connected_peers(s)) = 2
        /\ \E l \in players(s) : Len(l) = 3 /\ l[2] = Local

\* C10: while id() is None no peer is in Connected state.
C10_NoPeersBeforeId ==
    \A s \in Sockets : id[s] = None => connected_peers(s) = {}

C10_Witness ==
    \E s, t \in Sockets :
        /\ id[s] = None
        /\ peers[s] = <<>>
        /\ Resolved(t)
        /\ connected_peers(t) # {}

\* The typestate marker a builder with k channels carries.
Class(k) == IF k = 0 THEN "NoChannels" ELSE IF k = 1 THEN "SingleChannel" ELSE "MultipleChannels"
Rank(marker) ==
    CASE marker = "NoChannels" -> 0 [] marker = "SingleChannel" -> 1 [] marker = "MultipleChannels" -> 2

\* C5: after k channel-adding calls the marker is NoChannels, SingleChannel
\* or MultipleChannels for k = 0, k = 1, k >= 2, the stored channel list has
\* exactly k entries, and no call moves the marker backwards.
C5_MarkerMatchesCount ==
    /\ [](/\ builder.channel_plurality = Class(calls)
          /\ Len(builder.config.channels) = calls
          /\ builder.channel_plurality = Class(Len(builder.config.channels)))
    /\ [][Rank(builder'.channel_plurality) >= Rank(builder.channel_plurality)]_vars

C5_Witness ==
    /\ calls = 3
    /\ builder.channel_plurality = "MultipleChannels"
    /\ builder.config.channels = <<ggrs, reliable, ggrs>>

\* C6: a receive_all_messages call with no delivery since the previous call
\* (or since the socket was built) returns the empty sequence.
C6_SecondDrainEmpty ==
    \A s \in Sockets :
        (lastDrain[s] # None /\ Unwrap(lastDrain[s]).arrivals = 0)
            => Unwrap(lastDrain[s]).result = <<>>

C6_Witness ==
    \E s \in Sockets :
        /\ lastDrain[s] = Some([result |-> <<>>, arrivals |-> 0])
        /\ received[s] # <<>>
        /\ inbound[s] = <<>>

\* The (PeerId, Packet) pairs that carry the given (PeerId, Message) pairs.
Packed(msgs) == [i \in 1..Len(msgs) |-> <<msgs[i][1], build_packet(msgs[i][2])>>]

\* C7: the packets delivered to a socket are, in delivery order, those its
\* receive calls returned followed by those still queued (each returned by
\* exactly one call, none lost), and each call returns exactly the packets
\* delivered since the previous call.
C7_ExactlyOnceInOrder ==
    \A s \in Sockets :
        /\ delivered[s] = Packed(received[s]) \o inbound[s]
        /\ \A i, j \in 1..Len(received[s]) : received[s][i] = received[s][j] => i = j
        /\ lastDrain[s] # None =>
              LET d == Unwrap(lastDrain[s])
                  n == Len(received[s])
              IN /\ Len(d.result) = d.arrivals
                 /\ d.arrivals <= n
                 /\ d.result = SubSeq(received[s], n - d.arrivals + 1, n)

C7_Witness ==
    \E s \in Sockets :
        /\ Len(received[s]) = 2
        /\ lastDrain[s] # None
        /\ Unwrap(lastDrain[s]).arrivals = 2

\* C8: a packet sent to a peer that was not Connected at the call is never
\* written to a data channel, never delivered to any socket and never
\* returned by any receive, the sender's own included.
C8_RefusedNeverSeen ==
    \A r \in refused :
        /\ \A w \in wire : w.packet # build_packet(r.msg)
        /\ \A t \in Sockets :
              /\ \A i \in 1..Len(delivered[t]) : delivered[t][i][2] # build_packet(r.msg)
              /\ \A i \in 1..Len(inbound[t]) : inbound[t][i][2] # build_packet(r.msg)
              /\ \A i \in 1..Len(received[t]) : received[t][i][2] # r.msg

C8_Witness ==
    \E r \in refused :
        /\ r.to \in connected_peers(r.from)
        /\ sent = MaxSends
        /\ wire = {}
        /\ \A s \in Sockets : outbound[s] = <<>> /\ inbound[s] = <<>>
        /\ \E t \in Sockets : received[t] # <<>>

\* A step of a caller's send_to, and of a caller's receive_all_messages.
SendStep == sent' # sent
ReceiveStep == delivered' = delivered /\ (inbound' # inbound \/ lastDrain' # lastDrain)

\* C11: the peer-state map and the own id change only in message-loop
\* steps: a send_to or receive_all_messages step leaves both unchanged, a
\* send_to step leaves every inbound queue unchanged and a
\* receive_all_messages step leaves every outbound queue unchanged.  (id,
\* connected_peers and players take &self and are functions of the state.)
C11_CallerFrame ==
    [][/\ (SendStep \/ ReceiveStep) => (peers' = peers /\ id' = id /\ own' = own)
       /\ SendStep => inbound' = inbound
       /\ ReceiveStep => outbound' = outbound]_vars

C11_Witness ==
    \E s \in Sockets :
        /\ sent >= 1
        /\ lastDrain[s] # None
        /\ received[s] # <<>>
        /\ connected_peers(s) # {}
        /\ \E t \in Sockets : outbound[t] # <<>>

\* The message loop tasks spawned for socket k.
TasksOf(k) == {i \in DOMAIN tasks : tasks[i].socket = k}

\* What a drain of the queue q hands to the caller.
Drained(q) == [i \in 1..Len(q) |-> deserialize_packet(q[i]).pair]

\* C14: the end of a message loop leaves its socket intact.  The step that
\* ends the loop and every step after it leave the socket's id, peer-state
\* map and delivery record as they are; its inbound queue changes only by a
\* drain, which returns all that was queued; and send_to and
\* receive_all_messages can still be called.
C14_TerminationKeepsRuntime ==
    /\ [][\A s \in Sockets : loop'[s] = "finished" =>
            /\ id'[s] = id[s]
            /\ peers'[s] = peers[s]
            /\ delivered'[s] = delivered[s]
            /\ inbound'[s] # inbound[s] =>
                  /\ inbound'[s] = <<>>
                  /\ received'[s] = received[s] \o Drained(inbound[s])]_vars
    /\ [](\A s \in Sockets : loop[s] = "finished" =>
            /\ ENABLED ReceiveAllMessages(s)
            /\ sent < MaxSends => \A addr \in PeerIds : ENABLED SendTo(s, addr))

\* A loop has ended after it resolved the id, saw the peer connect and
\* queued a packet the caller has not drained yet.
C14_Witness ==
    \E s \in Sockets :
        /\ loop[s] = "finished"
        /\ id[s] # None
        /\ connected_peers(s) # {}
        /\ inbound[s] # <<>>

\* C12: every socket built has exactly one message loop task: the number of
\* tasks ever spawned equals the number of sockets built, one per socket.
C12_OneLoopPerSocket ==
    /\ Len(tasks) = Len(built)
    /\ \A k \in DOMAIN built : Cardinality(TasksOf(k)) = 1
    /\ \A i \in DOMAIN tasks : tasks[i].socket \in DOMAIN built

C12_Witness ==
    /\ Len(built) = 2
    /\ built[1].class = built[2].class
    /\ Cardinality(world) = 1
    /\ lastCmd = Some([cmd |-> "close", class |-> "MultipleChannels"])

\* Socket k was built and the World no longer holds it.
Dropped(k) == k \in DOMAIN built /\ \A r \in world : r.socket # k
LoopStopped(k) == \A i \in TasksOf(k) : tasks[i].state = "finished"

\* C13: once a socket is dropped (close_socket, or replaced by a later
\* open_socket of its class), its message loop eventually stops.
C13_DroppedLoopStops ==
    \A k \in 1..MaxOpens : [](Dropped(k) => <>LoopStopped(k))

\* C15: no socket runtime exists for an empty room address and no message
\* loop was started for one.
C15_EmptyAddressRejected ==
    /\ \A k \in DOMAIN built : built[k].room_url # ""
    /\ \A i \in DOMAIN tasks : built[tasks[i].socket].room_url # ""

\* The MatchboxSocket resources of a class.
OfClass(w, class) == {r \in w : r.class = class}

\* Some packet of the queue q does not deserialize.
Undecodable(q) == \E i \in 1..Len(q) : ~Decodable(q[i][2])

\* C16: a receive_all_messages call that drains a packet which fails to
\* deserialize panics and returns nothing: no message is handed to the
\* caller by that call.  So what the caller has been handed is, packet by
\* packet, the decoding of what was delivered, with no packet left out in
\* between, and packets that left the queue without being handed over mean
\* the caller panicked.
C16_DecodeFailureIsFatal ==
    /\ [][\A s \in Sockets :
            (inbound'[s] # inbound[s] /\ inbound'[s] = <<>> /\ Undecodable(inbound[s])) =>
               /\ panicked'[s]
               /\ received'[s] = received[s]
               /\ lastDrain'[s] = lastDrain[s]]_vars
    /\ [](\A s \in Sockets :
            /\ Len(received[s]) <= Len(delivered[s])
            /\ \A i \in 1..Len(received[s]) :
                  /\ Decodable(delivered[s][i][2])
                  /\ received[s][i] = deserialize_packet(delivered[s][i]).pair
            /\ Len(received[s]) + Len(inbound[s]) < Len(delivered[s]) => panicked[s])

\* A caller drained messages successfully and a later drain, which met an
\* undecodable packet, panicked.
C16_Witness ==
    \E s \in Sockets :
        /\ panicked[s]
        /\ received[s] # <<>>
        /\ inbound[s] = <<>>
        /\ Undecodable(delivered[s])

\* C17: the codec round-trips.  Every message given to send_to decodes from
\* its packet to itself, paired with the peer it is attributed to; and
\* where a packet built by send_to was delivered and drained, the receiver
\* got that message paired with the sender's PeerId.
C17_CodecRoundTrip ==
    \A rec \in posted :
        /\ deserialize_packet(<<own[rec.from], build_packet(rec.msg)>>)
              = [panic |-> FALSE, pair |-> <<own[rec.from], rec.msg>>]
        /\ \A s \in Sockets : \A i \in 1..Len(received[s]) :
              delivered[s][i] = <<own[rec.from], build_packet(rec.msg)>> =>
                 received[s][i] = <<own[rec.from], rec.msg>>

\* A receiver was handed two different messages of its peer, one with a
\* two-byte magic and a negative ack_frame among them.
C17_Witness ==
    \E s \in Sockets :
        /\ Len(received[s]) = 2
        /\ received[s][1] # received[s][2]
        /\ \E i \in 1..2 :
              /\ received[s][i][1] = own[Other(s)]
              /\ received[s][i][2] = [magic |-> 258, ack_frame |-> -1]
              /\ [from |-> Other(s), to |-> own[s], msg |-> received[s][i][2]] \in posted

\* C18: the World holds at most one MatchboxSocket per class; after
\* open_socket<C> it holds exactly one of class C, the socket just built;
\* after close_socket<C> it holds none of class C; and neither command
\* changes the resource of another class.
C18_OnePerClass ==
    /\ [](/\ \A class \in Classes : Cardinality(OfClass(world, class)) <= 1
          /\ lastCmd # None =>
                LET c == Unwrap(lastCmd)
                IN IF c.cmd = "open"
                   THEN OfClass(world, c.class) = {[class |-> c.class, socket |-> Len(built)]}
                   ELSE OfClass(world, c.class) = {})
    /\ [][world' # world =>
            \A class \in Classes :
                class # Unwrap(lastCmd').class => OfClass(world', class) = OfClass(world, class)]_vars

C18_Witness ==
    /\ Len(built) = 2
    /\ built[1].class = built[2].class
    /\ world = {[class |-> built[2].class, socket |-> 2]}
    /\ lastCmd = Some([cmd |-> "close", class |-> "SingleChannel"])

\* C19: every channel-adding call appends exactly one ChannelConfig at the
\* end of the channel list and leaves the earlier configs, the room address
\* and the keys as they were; add_ggrs_channel appends the unreliable
\* profile; below the model's bound the call is always possible.
C19_PureAppend ==
    /\ [](/\ add_ggrs_channel(builder).config =
                [builder.config EXCEPT !.channels = Append(@, unreliable)]
          /\ calls < MaxChannels => ENABLED AddGgrsChannel)
    /\ [][builder' # builder =>
            \E cfg \in ChannelConfigs :
                builder'.config = [builder.config EXCEPT !.channels = Append(@, cfg)]]_vars

C19_Witness ==
    /\ calls = 3
    /\ builder.config.channels = <<reliable, ggrs, reliable>>
    /\ builder.config.room_url = "wss://other"

\* C20: id() is None when the socket is built and, once it is Some(p), it
\* stays Some(p) with the same p, the id the signalling layer gave the
\* socket, which is the PeerId Local stands for.
C20_IdStable ==
    /\ \A s \in Sockets : id[s] = None
    /\ [](\A s \in Sockets : id[s] \in {None, Some(own[s])})
    /\ [][/\ own' = own
          /\ \A s \in Sockets : id[s] # None => id'[s] = id[s]]_vars

C20_Witness ==
    \E s \in Sockets :
        /\ Resolved(s)
        /\ connected_peers(s) # {}
        /\ \E p \in DOMAIN peers[s] : peers[s][p] = "Disconnected"
        /\ \E l \in players(s) : l[2] = Local

====
